---- MODULE Spec2Model ----
(***************************************************************************)
(* Trip lifecycle and participation workflow of the Web-App router         *)
(* (src/Web-App/trips.py): create_trip, update_trip, apply_for_trip and    *)
(* start_trip acting on the stored trips, applications and messages.       *)
(***************************************************************************)
EXTENDS Integers, Sequences, FiniteSets, TLC

\* ---------------------------------------------------------------- bounds
NumUsers == 2
MaxTrips == 1
MaxApplicants == 1
MaxTime == 1
MaxRequests == 2

Users == 1..NumUsers
TripIds == 1..MaxTrips
Times == 0..MaxTime
Requests == 1..MaxRequests

\* ------------------------------------------------------- enums (schemas.py)
PLANNING == "planning"
RECRUITING == "recruiting"
CONFIRMED == "confirmed"
IN_PROGRESS == "in_progress"
COMPLETED == "completed"
CANCELLED == "cancelled"
TripStatus == {PLANNING, RECRUITING, CONFIRMED, IN_PROGRESS, COMPLETED, CANCELLED}

PENDING == "pending"
APPROVED == "approved"
REJECTED == "rejected"
APP_CANCELLED == "cancelled"
ApplicationStatus == {PENDING, APPROVED, REJECTED, APP_CANCELLED}

TRAVELER == "traveler"
ORGANIZER == "organizer"
ADMIN == "admin"
UserRole == {TRAVELER, ORGANIZER, ADMIN}

\* ------------------------------------------------------------ HTTP status
HTTP_200_OK == 200
HTTP_201_CREATED == 201
HTTP_400_BAD_REQUEST == 400
HTTP_403_FORBIDDEN == 403
HTTP_404_NOT_FOUND == 404
HTTP_500_INTERNAL_SERVER_ERROR == 500

HTTPException(status_code, detail) == [status_code |-> status_code, detail |-> detail]

\* An exception that is not an HTTPException leaves the handler: the
\* framework answers 500.
ServerError(detail) == [status_code |-> HTTP_500_INTERNAL_SERVER_ERROR, detail |-> detail]

\* A normal return: the status code of the route and what is returned.
Returned(status_code, body) == [status_code |-> status_code, detail |-> body]

NoResponse == [status_code |-> 0, detail |-> "none"]

\* ------------------------------------------------------------------ state
VARIABLES
    trips,          \* table Trip: sequence indexed by Trip.id
    applications,   \* table TripApplication: sequence indexed by id
    messages,       \* table TripMessage: sequence indexed by id
    response,       \* the response of the last finished request
    inflight        \* apply_for_trip requests being served concurrently

vars == <<trips, applications, messages, response, inflight>>
db == <<trips, applications, messages>>

Range(s) == {s[i] : i \in DOMAIN s}

\* The role column of a user (the first user is the administrator).
role(u) == IF u = 1 THEN ADMIN ELSE TRAVELER

\* TripUpdate carries an optional status; title and description do not
\* touch the modelled columns.  A patch is a function whose domain is the
\* set of fields that were set.
NoFields == [f \in {} |-> PLANNING]
TripUpdate == {NoFields} \cup {[f \in {"status"} |-> s] : s \in TripStatus}

\* The part of TripCreate the handler looks at.
TripCreate(start_date) == [start_date |-> start_date]

Idle == [pc |-> "idle", trip_id |-> 0, current_user |-> 0, existing_application |-> FALSE]

Init ==
    /\ trips = <<>>
    /\ applications = <<>>
    /\ messages = <<>>
    /\ response = NoResponse
    /\ inflight = [r \in Requests |-> Idle]

\* ------------------------------------------------------------------ rows
\* Trip(**trip.dict(), organizer_id=..., status=...) with its participants list.
Trip(organizer_id, status, participants) ==
    [organizer_id |-> organizer_id, status |-> status, participants |-> participants]

\* TripApplication(trip_id=..., applicant_id=..., message=...): the status
\* column takes its default.
TripApplication(trip_id, applicant_id) ==
    [trip_id |-> trip_id, applicant_id |-> applicant_id, status |-> PENDING]

TripMessage(content, trip_id, author_id, is_system) ==
    [content |-> content, trip_id |-> trip_id, author_id |-> author_id,
     is_system |-> is_system]

\* The names bound in the namespace of trips.py by its import statements.
trips_imports ==
    {"APIRouter", "Depends", "HTTPException", "status", "Query", "Session",
     "List", "Optional", "datetime", "get_session", "get_current_user",
     "require_role", "Trip", "User", "TripStatus", "TripMessage",
     "TripApplication", "ApplicationStatus", "schemas"}

\* for key, value in trip_update.dict(exclude_unset=True).items(): setattr(...)
setattr_all(trip, trip_update) ==
    IF "status" \in DOMAIN trip_update
    THEN [trip EXCEPT !.status = trip_update["status"]]
    ELSE trip

\* db.query(TripApplication).filter(trip_id == ..., applicant_id == ...).first()
existing_application(trip_id, current_user) ==
    \E i \in DOMAIN applications :
        /\ applications[i].trip_id = trip_id
        /\ applications[i].applicant_id = current_user

\* The (trip, applicant) pairs that have applied.
Applicants == {<<applications[i].trip_id, applications[i].applicant_id>> : i \in DOMAIN applications}

\* At most MaxApplicants pairs apply.
MayApply(trip_id, current_user) ==
    Cardinality(Applicants \cup {<<trip_id, current_user>>}) <= MaxApplicants

\* --------------------------------------------------------------- handlers
\* create_trip with the creator not appended to the participants.
create_trip_without_participant(trip, current_user, now) ==
    IF trip.start_date < now
    THEN /\ response' = HTTPException(HTTP_400_BAD_REQUEST, "Start date cannot be in the past")
         /\ UNCHANGED db
    ELSE /\ Len(trips) < MaxTrips
         /\ trips' = Append(trips, Trip(current_user, RECRUITING, <<>>))
         /\ messages' = Append(messages,
                TripMessage("trip created", Len(trips) + 1, current_user, TRUE))
         /\ response' = Returned(HTTP_201_CREATED, "TripResponse")
         /\ UNCHANGED applications

\* create_trip comparing start_date <= now.
create_trip_rejecting_now(trip, current_user, now) ==
    IF trip.start_date <= now
    THEN /\ response' = HTTPException(HTTP_400_BAD_REQUEST, "Start date cannot be in the past")
         /\ UNCHANGED db
    ELSE /\ Len(trips) < MaxTrips
         /\ trips' = Append(trips, Trip(current_user, RECRUITING, <<current_user>>))
         /\ messages' = Append(messages,
                TripMessage("trip created", Len(trips) + 1, current_user, TRUE))
         /\ response' = Returned(HTTP_201_CREATED, "TripResponse")
         /\ UNCHANGED applications

\* POST /trips/
create_trip(trip, current_user, now) ==
    IF trip.start_date < now
    THEN /\ response' = HTTPException(HTTP_400_BAD_REQUEST, "Start date cannot be in the past")
         /\ UNCHANGED db
    ELSE /\ Len(trips) < MaxTrips
         /\ trips' = Append(trips, Trip(current_user, RECRUITING, <<current_user>>))
         /\ messages' = Append(messages,
                TripMessage("trip created", Len(trips) + 1, current_user, TRUE))
         /\ response' = Returned(HTTP_201_CREATED, "TripResponse")
         /\ UNCHANGED applications

\* POST /trips/ when the commit of the system message raises: the trip was
\* committed before it.
create_trip_commit_fails(trip, current_user, now) ==
    /\ ~(trip.start_date < now)
    /\ Len(trips) < MaxTrips
    /\ trips' = Append(trips, Trip(current_user, RECRUITING, <<current_user>>))
    /\ response' = ServerError("commit failed")
    /\ UNCHANGED <<applications, messages>>

\* PUT /trips/{trip_id}
update_trip(trip_id, trip_update, current_user) ==
    IF trip_id \notin DOMAIN trips
    THEN /\ response' = HTTPException(HTTP_404_NOT_FOUND, "Trip not found")
         /\ UNCHANGED db
    ELSE IF /\ trips[trip_id].organizer_id # current_user
            /\ "UserRole" \notin trips_imports
    THEN /\ response' = ServerError("NameError: name 'UserRole' is not defined")
         /\ UNCHANGED db
    ELSE IF /\ trips[trip_id].organizer_id # current_user
            /\ role(current_user) # ADMIN
    THEN /\ response' = HTTPException(HTTP_403_FORBIDDEN, "Only trip organizer can update trip")
         /\ UNCHANGED db
    ELSE /\ trips' = [trips EXCEPT ![trip_id] = setattr_all(@, trip_update)]
         /\ response' = Returned(HTTP_200_OK, "TripResponse")
         /\ UNCHANGED <<applications, messages>>

\* apply_for_trip without the test that the applicant is the organizer.
apply_for_trip_without_organizer_test(trip_id, current_user) ==
    IF trip_id \notin DOMAIN trips
    THEN /\ response' = HTTPException(HTTP_404_NOT_FOUND, "Trip not found")
         /\ UNCHANGED db
    ELSE IF trips[trip_id].status # RECRUITING
    THEN /\ response' = HTTPException(HTTP_400_BAD_REQUEST, "Trip is not recruiting participants")
         /\ UNCHANGED db
    ELSE IF current_user \in Range(trips[trip_id].participants)
    THEN /\ response' = HTTPException(HTTP_400_BAD_REQUEST, "You are already a participant")
         /\ UNCHANGED db
    ELSE IF existing_application(trip_id, current_user)
    THEN /\ response' = HTTPException(HTTP_400_BAD_REQUEST, "You have already applied for this trip")
         /\ UNCHANGED db
    ELSE /\ MayApply(trip_id, current_user)
         /\ applications' = Append(applications, TripApplication(trip_id, current_user))
         /\ messages' = Append(messages,
                TripMessage("user applied", trip_id, current_user, TRUE))
         /\ response' = Returned(HTTP_200_OK, "TripApplicationResponse")
         /\ UNCHANGED trips

\* apply_for_trip without the query for an existing application.
apply_for_trip_without_existing_query(trip_id, current_user) ==
    IF trip_id \notin DOMAIN trips
    THEN /\ response' = HTTPException(HTTP_404_NOT_FOUND, "Trip not found")
         /\ UNCHANGED db
    ELSE IF trips[trip_id].status # RECRUITING
    THEN /\ response' = HTTPException(HTTP_400_BAD_REQUEST, "Trip is not recruiting participants")
         /\ UNCHANGED db
    ELSE IF trips[trip_id].organizer_id = current_user
    THEN /\ response' = HTTPException(HTTP_400_BAD_REQUEST, "Organizer cannot apply for their own trip")
         /\ UNCHANGED db
    ELSE IF current_user \in Range(trips[trip_id].participants)
    THEN /\ response' = HTTPException(HTTP_400_BAD_REQUEST, "You are already a participant")
         /\ UNCHANGED db
    ELSE /\ MayApply(trip_id, current_user)
         /\ applications' = Append(applications, TripApplication(trip_id, current_user))
         /\ messages' = Append(messages,
                TripMessage("user applied", trip_id, current_user, TRUE))
         /\ response' = Returned(HTTP_200_OK, "TripApplicationResponse")
         /\ UNCHANGED trips

\* POST /trips/{trip_id}/apply
apply_for_trip(trip_id, current_user) ==
    IF trip_id \notin DOMAIN trips
    THEN /\ response' = HTTPException(HTTP_404_NOT_FOUND, "Trip not found")
         /\ UNCHANGED db
    ELSE IF trips[trip_id].status # RECRUITING
    THEN /\ response' = HTTPException(HTTP_400_BAD_REQUEST, "Trip is not recruiting participants")
         /\ UNCHANGED db
    ELSE IF trips[trip_id].organizer_id = current_user
    THEN /\ response' = HTTPException(HTTP_400_BAD_REQUEST, "Organizer cannot apply for their own trip")
         /\ UNCHANGED db
    ELSE IF current_user \in Range(trips[trip_id].participants)
    THEN /\ response' = HTTPException(HTTP_400_BAD_REQUEST, "You are already a participant")
         /\ UNCHANGED db
    ELSE IF existing_application(trip_id, current_user)
    THEN /\ response' = HTTPException(HTTP_400_BAD_REQUEST, "You have already applied for this trip")
         /\ UNCHANGED db
    ELSE /\ MayApply(trip_id, current_user)
         /\ applications' = Append(applications, TripApplication(trip_id, current_user))
         /\ messages' = Append(messages,
                TripMessage("user applied", trip_id, current_user, TRUE))
         /\ response' = Returned(HTTP_200_OK, "TripApplicationResponse")
         /\ UNCHANGED trips

\* POST /trips/{trip_id}/apply when the commit of the system message raises:
\* the application was committed before it.
apply_for_trip_commit_fails(trip_id, current_user) ==
    /\ trip_id \in DOMAIN trips
    /\ trips[trip_id].status = RECRUITING
    /\ trips[trip_id].organizer_id # current_user
    /\ current_user \notin Range(trips[trip_id].participants)
    /\ ~existing_application(trip_id, current_user)
    /\ MayApply(trip_id, current_user)
    /\ applications' = Append(applications, TripApplication(trip_id, current_user))
    /\ response' = ServerError("commit failed")
    /\ UNCHANGED <<trips, messages>>

\* start_trip without the test that the caller is the organizer.
start_trip_without_organizer_test(trip_id, current_user) ==
    IF trip_id \notin DOMAIN trips
    THEN /\ response' = HTTPException(HTTP_404_NOT_FOUND, "Trip not found")
         /\ UNCHANGED db
    ELSE IF trips[trip_id].status # CONFIRMED
    THEN /\ response' = HTTPException(HTTP_400_BAD_REQUEST, "Trip must be confirmed before starting")
         /\ UNCHANGED db
    ELSE /\ trips' = [trips EXCEPT ![trip_id].status = IN_PROGRESS]
         /\ response' = Returned(HTTP_200_OK, "Trip started successfully")
         /\ UNCHANGED <<applications, messages>>

\* start_trip that stores the new status before it tests the old one.
start_trip_storing_before_test(trip_id, current_user) ==
    IF trip_id \notin DOMAIN trips
    THEN /\ response' = HTTPException(HTTP_404_NOT_FOUND, "Trip not found")
         /\ UNCHANGED db
    ELSE IF trips[trip_id].organizer_id # current_user
    THEN /\ response' = HTTPException(HTTP_403_FORBIDDEN, "Only trip organizer can start the trip")
         /\ UNCHANGED db
    ELSE /\ trips' = [trips EXCEPT ![trip_id].status = IN_PROGRESS]
         /\ response' = IF trips[trip_id].status # CONFIRMED
                        THEN HTTPException(HTTP_400_BAD_REQUEST, "Trip must be confirmed before starting")
                        ELSE Returned(HTTP_200_OK, "Trip started successfully")
         /\ UNCHANGED <<applications, messages>>

\* POST /trips/{trip_id}/start
start_trip(trip_id, current_user) ==
    IF trip_id \notin DOMAIN trips
    THEN /\ response' = HTTPException(HTTP_404_NOT_FOUND, "Trip not found")
         /\ UNCHANGED db
    ELSE IF trips[trip_id].organizer_id # current_user
    THEN /\ response' = HTTPException(HTTP_403_FORBIDDEN, "Only trip organizer can start the trip")
         /\ UNCHANGED db
    ELSE IF trips[trip_id].status # CONFIRMED
    THEN /\ response' = HTTPException(HTTP_400_BAD_REQUEST, "Trip must be confirmed before starting")
         /\ UNCHANGED db
    ELSE /\ trips' = [trips EXCEPT ![trip_id].status = IN_PROGRESS]
         /\ response' = Returned(HTTP_200_OK, "Trip started successfully")
         /\ UNCHANGED <<applications, messages>>

\* ------------------------------- apply_for_trip served by several threads
\* The checks on the trip and the query for an existing application.
apply_query(r, trip_id, current_user) ==
    /\ inflight[r].pc = "idle"
    /\ IF trip_id \notin DOMAIN trips
       THEN /\ response' = HTTPException(HTTP_404_NOT_FOUND, "Trip not found")
            /\ UNCHANGED inflight
       ELSE IF trips[trip_id].status # RECRUITING
       THEN /\ response' = HTTPException(HTTP_400_BAD_REQUEST, "Trip is not recruiting participants")
            /\ UNCHANGED inflight
       ELSE IF trips[trip_id].organizer_id = current_user
       THEN /\ response' = HTTPException(HTTP_400_BAD_REQUEST, "Organizer cannot apply for their own trip")
            /\ UNCHANGED inflight
       ELSE IF current_user \in Range(trips[trip_id].participants)
       THEN /\ response' = HTTPException(HTTP_400_BAD_REQUEST, "You are already a participant")
            /\ UNCHANGED inflight
       ELSE /\ inflight' = [inflight EXCEPT ![r] =
                   [pc |-> "queried", trip_id |-> trip_id, current_user |-> current_user,
                    existing_application |-> existing_application(trip_id, current_user)]]
            /\ UNCHANGED response
    /\ UNCHANGED db

\* The test of the query's result, then db.add(db_application); db.commit().
apply_insert(r) ==
    /\ inflight[r].pc = "queried"
    /\ IF inflight[r].existing_application
       THEN /\ response' = HTTPException(HTTP_400_BAD_REQUEST, "You have already applied for this trip")
            /\ inflight' = [inflight EXCEPT ![r] = Idle]
            /\ UNCHANGED db
       ELSE /\ MayApply(inflight[r].trip_id, inflight[r].current_user)
            /\ applications' = Append(applications,
                   TripApplication(inflight[r].trip_id, inflight[r].current_user))
            /\ inflight' = [inflight EXCEPT ![r].pc = "inserted"]
            /\ UNCHANGED <<trips, messages, response>>

\* db.add(system_message); db.commit(); return db_application
apply_message(r) ==
    /\ inflight[r].pc = "inserted"
    /\ messages' = Append(messages,
           TripMessage("user applied", inflight[r].trip_id, inflight[r].current_user, TRUE))
    /\ response' = Returned(HTTP_200_OK, "TripApplicationResponse")
    /\ inflight' = [inflight EXCEPT ![r] = Idle]
    /\ UNCHANGED <<trips, applications>>

\* ---------------------------------------------------------------- actions
CreateTrip ==
    \E start_date \in Times, u \in Users, now \in Times :
        create_trip(TripCreate(start_date), u, now) /\ UNCHANGED inflight

UpdateTrip ==
    \E t \in TripIds, p \in TripUpdate, u \in Users :
        update_trip(t, p, u) /\ UNCHANGED inflight

ApplyForTrip ==
    \E t \in TripIds, u \in Users :
        apply_for_trip(t, u) /\ UNCHANGED inflight

StartTrip ==
    \E t \in TripIds, u \in Users :
        start_trip(t, u) /\ UNCHANGED inflight

CreateTripCommitFails ==
    \E start_date \in Times, u \in Users, now \in Times :
        create_trip_commit_fails(TripCreate(start_date), u, now) /\ UNCHANGED inflight

ApplyForTripCommitFails ==
    \E t \in TripIds, u \in Users :
        apply_for_trip_commit_fails(t, u) /\ UNCHANGED inflight

ApplyQuery == \E r \in Requests, t \in TripIds, u \in Users : apply_query(r, t, u)

ApplyInsert == \E r \in Requests : apply_insert(r)

ApplyMessage == \E r \in Requests : apply_message(r)

\* Requests served one after the other, each to its end.
Next == CreateTrip \/ UpdateTrip \/ ApplyForTrip \/ StartTrip

Spec == Init /\ [][Next]_vars

\* Requests served one after the other, where a commit may raise.
NextFault == Next \/ CreateTripCommitFails \/ ApplyForTripCommitFails

SpecFault == Init /\ [][NextFault]_vars

\* apply_for_trip requests served by concurrent threads of the worker pool.
NextConc == CreateTrip \/ UpdateTrip \/ StartTrip \/ ApplyQuery \/ ApplyInsert \/ ApplyMessage

SpecConc == Init /\ [][NextConc]_vars

\* ------------------------------------------------------ error taxonomy
NotFound(r) == r.status_code = HTTP_404_NOT_FOUND
Forbidden(r) == r.status_code = HTTP_403_FORBIDDEN
InvalidState(r) ==
    /\ r.status_code = HTTP_400_BAD_REQUEST
    /\ r.detail \in {"Trip is not recruiting participants",
                     "Trip must be confirmed before starting"}
Conflict(r) ==
    /\ r.status_code = HTTP_400_BAD_REQUEST
    /\ r.detail \in {"You are already a participant",
                     "You have already applied for this trip"}
Validation(r) ==
    /\ r.status_code = HTTP_400_BAD_REQUEST
    /\ r.detail = "Start date cannot be in the past"
ErrorOutcome(r) ==
    NotFound(r) \/ Forbidden(r) \/ InvalidState(r) \/ Conflict(r) \/ Validation(r)
    \/ r = HTTPException(HTTP_400_BAD_REQUEST, "Organizer cannot apply for their own trip")
Succeeded(r) == r.status_code \in {HTTP_200_OK, HTTP_201_CREATED}

ApplicationsOf(apps, t, u) ==
    {i \in DOMAIN apps : apps[i].trip_id = t /\ apps[i].applicant_id = u}

\* ------------------------------------------------------------------ C1
\* C1: in every reachable state every existing trip's organizer is one of
\* the trip's participants.
C1_OrganizerIsParticipant ==
    \A i \in DOMAIN trips : trips[i].organizer_id \in Range(trips[i].participants)

\* A trip that was created, applied to, updated to CONFIRMED and started.
C1_Witness ==
    \E i \in DOMAIN trips :
        /\ trips[i].status = IN_PROGRESS
        /\ response = Returned(HTTP_200_OK, "Trip started successfully")
        /\ \E a \in DOMAIN applications : applications[a].trip_id = i

\* ------------------------------------------------------------------ C2
LifecycleEdges ==
    {<<PLANNING, RECRUITING>>, <<RECRUITING, CONFIRMED>>,
     <<CONFIRMED, IN_PROGRESS>>, <<IN_PROGRESS, COMPLETED>>}
    \cup {<<s, CANCELLED>> : s \in TripStatus \ {COMPLETED, CANCELLED}}

\* C2: every change of a trip's status is an edge of the lifecycle
\* PLANNING -> RECRUITING -> CONFIRMED -> IN_PROGRESS -> COMPLETED or an edge
\* to CANCELLED from a non-terminal status; a trip in COMPLETED or CANCELLED
\* keeps its status in every later step.
C2_StatusFollowsLifecycle ==
    [][\A i \in DOMAIN trips :
          /\ trips'[i].status # trips[i].status
                => <<trips[i].status, trips'[i].status>> \in LifecycleEdges
          /\ trips[i].status \in {COMPLETED, CANCELLED}
                => trips'[i].status = trips[i].status]_vars

\* ------------------------------------------------------------------ C3
\* C3: start_trip on an absent trip answers NotFound; on an existing trip it
\* answers Forbidden when the caller is not the organizer, InvalidState when
\* the caller is the organizer and the status is not CONFIRMED, both with the
\* stored state unchanged; it succeeds exactly when the status is CONFIRMED
\* and the caller is the organizer, and then the status is IN_PROGRESS.
C3_StartTripOutcome ==
    [][\A t \in TripIds, u \in Users :
          start_trip(t, u) =>
            IF t \notin DOMAIN trips
            THEN NotFound(response') /\ UNCHANGED db
            ELSE /\ Succeeded(response')
                    <=> (trips[t].status = CONFIRMED /\ trips[t].organizer_id = u)
                 /\ Succeeded(response') => trips'[t].status = IN_PROGRESS
                 /\ ~Succeeded(response') => UNCHANGED db
                 /\ trips[t].organizer_id # u => Forbidden(response')
                 /\ (trips[t].organizer_id = u /\ trips[t].status # CONFIRMED)
                        => InvalidState(response')]_vars

\* The organizer started a CONFIRMED trip.
C3_Witness ==
    /\ response = Returned(HTTP_200_OK, "Trip started successfully")
    /\ \E i \in DOMAIN trips : trips[i].status = IN_PROGRESS

\* ------------------------------------------------------------------ C4
\* C4: every step that creates a trip, creates an application or changes a
\* trip's status appends, in the same step, exactly one system message to
\* the log of that trip.
C4_ChangeCarriesSystemMessage ==
    [][\A t \in TripIds :
          (\/ (t \in DOMAIN trips' /\ t \notin DOMAIN trips)
           \/ (t \in DOMAIN trips /\ trips'[t].status # trips[t].status)
           \/ \E a \in DOMAIN applications' :
                 a \notin DOMAIN applications /\ applications'[a].trip_id = t)
          => /\ Len(messages') = Len(messages) + 1
             /\ SubSeq(messages', 1, Len(messages)) = messages
             /\ messages'[Len(messages')].is_system
             /\ messages'[Len(messages')].trip_id = t]_vars

\* ------------------------------------------------------------------ C5
\* C5 as stated: apply_for_trip by the organizer of an existing RECRUITING
\* trip answers Forbidden (403) and creates no application and no message.
C5_OrganizerApplyIsForbidden ==
    [][\A t \in TripIds, u \in Users :
          (/\ apply_for_trip(t, u)
           /\ t \in DOMAIN trips
           /\ trips[t].status = RECRUITING
           /\ trips[t].organizer_id = u)
          => /\ Forbidden(response')
             /\ UNCHANGED <<applications, messages>>]_vars

\* C5 amended: apply_for_trip by the organizer of an existing RECRUITING
\* trip answers 400 with the detail "Organizer cannot apply for their own
\* trip" and creates no application and no message.
C5_OrganizerApplyIsBadRequest ==
    [][\A t \in TripIds, u \in Users :
          (/\ apply_for_trip(t, u)
           /\ t \in DOMAIN trips
           /\ trips[t].status = RECRUITING
           /\ trips[t].organizer_id = u)
          => /\ response' = HTTPException(HTTP_400_BAD_REQUEST,
                                "Organizer cannot apply for their own trip")
             /\ UNCHANGED <<applications, messages>>]_vars

\* The organizer applied to their own RECRUITING trip.
C5_Witness ==
    /\ response = HTTPException(HTTP_400_BAD_REQUEST,
                      "Organizer cannot apply for their own trip")
    /\ \E i \in DOMAIN trips : trips[i].status = RECRUITING

\* ------------------------------------------------------------------ C6
\* C6: update_trip on an absent trip answers NotFound; on an existing trip it
\* answers Forbidden, leaving the trip unchanged, when the caller is neither
\* the organizer nor an administrator; for the organizer or an administrator
\* it succeeds and applies the patch.
C6_UpdateTripOutcome ==
    [][\A t \in TripIds, p \in TripUpdate, u \in Users :
          update_trip(t, p, u) =>
            IF t \notin DOMAIN trips
            THEN NotFound(response') /\ UNCHANGED db
            ELSE IF trips[t].organizer_id # u /\ role(u) # ADMIN
            THEN Forbidden(response') /\ UNCHANGED db
            ELSE /\ Succeeded(response')
                 /\ trips' = [trips EXCEPT ![t] = setattr_all(@, p)]]_vars

\* ------------------------------------------------------------------ C7
\* What a successful create_trip by u leaves behind.
Created(u) ==
    /\ response'.status_code = HTTP_201_CREATED
    /\ Len(trips') = Len(trips) + 1
    /\ SubSeq(trips', 1, Len(trips)) = trips
    /\ trips'[Len(trips')].status = RECRUITING
    /\ trips'[Len(trips')].organizer_id = u
    /\ trips'[Len(trips')].participants = <<u>>

\* C7 as stated: create_trip answers Validation and creates no trip and no
\* message whenever start_date <= now; otherwise it creates a RECRUITING
\* trip whose organizer is the creator and whose participants are exactly
\* the creator.
C7_RejectsUnlessStrictlyFuture ==
    [][\A start_date \in Times, u \in Users, now \in Times :
          create_trip(TripCreate(start_date), u, now) =>
            IF start_date <= now
            THEN Validation(response') /\ UNCHANGED db
            ELSE Created(u)]_vars

\* C7 amended: create_trip answers Validation and creates no trip and no
\* message whenever start_date < now; otherwise (start_date >= now, the
\* submission time itself included) it creates a RECRUITING trip whose
\* organizer is the creator and whose participants are exactly the creator.
C7_RejectsOnlyPast ==
    [][\A start_date \in Times, u \in Users, now \in Times :
          create_trip(TripCreate(start_date), u, now) =>
            IF start_date < now
            THEN Validation(response') /\ UNCHANGED db
            ELSE Created(u)]_vars

\* A trip was just created: its creation message is the last of the log.
C7_Witness ==
    /\ response = Returned(HTTP_201_CREATED, "TripResponse")
    /\ trips # <<>>
    /\ trips[Len(trips)].status = RECRUITING
    /\ messages # <<>>
    /\ messages[Len(messages)] =
           TripMessage("trip created", Len(trips), trips[Len(trips)].organizer_id, TRUE)

\* ------------------------------------------------------------------ C8
\* C8: with requests served one after the other, apply_for_trip by a user
\* who is neither organizer nor participant of an existing RECRUITING trip
\* creates a PENDING application when the user has none for the trip, and
\* answers Conflict, adding no application and no message, when the user
\* has one; after either, exactly one application of the pair exists.
C8_SecondApplyConflicts ==
    [][\A t \in TripIds, u \in Users :
          (/\ apply_for_trip(t, u)
           /\ t \in DOMAIN trips
           /\ trips[t].status = RECRUITING
           /\ trips[t].organizer_id # u
           /\ u \notin Range(trips[t].participants))
          => /\ ApplicationsOf(applications, t, u) = {}
                  => /\ Succeeded(response')
                     /\ applications' = Append(applications,
                            [trip_id |-> t, applicant_id |-> u, status |-> PENDING])
             /\ ApplicationsOf(applications, t, u) # {}
                  => /\ Conflict(response')
                     /\ UNCHANGED <<applications, messages>>
             /\ Cardinality(ApplicationsOf(applications', t, u)) = 1]_vars

\* The second apply of a user was answered with Conflict.
C8_Witness ==
    /\ response = HTTPException(HTTP_400_BAD_REQUEST,
                      "You have already applied for this trip")
    /\ \E a \in DOMAIN applications :
          /\ applications[a].status = PENDING
          /\ Cardinality(ApplicationsOf(applications, applications[a].trip_id,
                                        applications[a].applicant_id)) = 1

\* ------------------------------------------------------------------ C9
\* C9: a step that ends in an error outcome (NotFound, Forbidden,
\* InvalidState, Conflict, Validation) leaves trips, applications and
\* messages as they were.
C9_ErrorLeavesStateUnchanged ==
    [][ErrorOutcome(response') => UNCHANGED db]_vars

\* An error answered while trips, applications and messages are stored.
C9_Witness ==
    /\ ErrorOutcome(response)
    /\ trips # <<>>
    /\ applications # <<>>
    /\ \E i \in DOMAIN trips : trips[i].status # RECRUITING

\* ----------------------------------------------------------------- C10
\* C10: at most one non-cancelled application exists per (trip, applicant)
\* pair, also when apply_for_trip requests are served concurrently.
C10_OneApplicationPerPair ==
    \A a, b \in DOMAIN applications :
        (/\ a # b
         /\ applications[a].status # APP_CANCELLED
         /\ applications[b].status # APP_CANCELLED)
        => \/ applications[a].trip_id # applications[b].trip_id
           \/ applications[a].applicant_id # applications[b].applicant_id

====
